---- MODULE Spec2Model ----
(***************************************************************************)
(* Inverted pendulum on a cart (class InvertedPendulum) and its PID        *)
(* controller (class PIDController), src/lib/InvertedPendulum.ts, and the  *)
(* page component that drives them (Home), src/pages/index.tsx.            *)
(*                                                                         *)
(* JavaScript numbers are represented in fixed point: the integer n stands *)
(* for the number n / Scale, so lengths are in millimetres, angles in      *)
(* milliradians, times in milliseconds, forces in millinewtons.  Products  *)
(* and quotients are rounded toward zero to the nearest 1/Scale.           *)
(***************************************************************************)
EXTENDS Integers, Sequences, FiniteSets, TLC

Scale == 1000

(***************************************************************************)
(* Bounds of the model.                                                    *)
(***************************************************************************)
MaxSteps == 3

MaxCalls == 3

\* consecutive update calls made by one UpdateRun step
RunLength == 30

\* largest magnitude, in units, that a controller term may take in the model
MaxMagnitude == 1000000

(***************************************************************************)
(* Math.* and arithmetic on numbers.                                       *)
(***************************************************************************)
Abs(a) == IF a < 0 THEN -a ELSE a

Sign(a) == IF a > 0 THEN 1 ELSE IF a < 0 THEN -1 ELSE 0

Min(a, b) == IF a < b THEN a ELSE b

Max(a, b) == IF a > b THEN a ELSE b

\* Body(value), with value computed once
Let(value, Body(_)) == CHOOSE r \in { Body(x) : x \in { value } } : TRUE

\* a * b
MulFix(a, b) ==
  LET ah == Abs(a) \div Scale
      al == Abs(a) % Scale
      bh == Abs(b) \div Scale
      bl == Abs(b) % Scale
  IN  Sign(a) * Sign(b) * (ah * bh * Scale + ah * bl + al * bh + (al * bl) \div Scale)

\* a / b, b # 0
DivFix(a, b) ==
  Sign(a) * Sign(b) *
    ((Abs(a) \div Abs(b)) * Scale + ((Abs(a) % Abs(b)) * Scale) \div Abs(b))

\* a / n for a literal integer n > 0 (dt / 2, (dt / 6) * sum)
DivInt(a, n) == Sign(a) * (Abs(a) \div n)

PI == 3142

HalfPI == 1571

\* sin on [-PI/2, PI/2], by its Taylor polynomial, never outside [-1, 1]
SinPoly(x) ==
  Let(MulFix(x, x), LAMBDA x2 :
  Let(MulFix(x2, x), LAMBDA x3 :
  Let(MulFix(x3, x2), LAMBDA x5 :
    Max(-Scale,
        Min(Scale, x - DivInt(x3, 6) + DivInt(x5, 120)
                     - DivInt(MulFix(x5, x2), 5040))))))

\* Math.sin
Sin(theta) ==
  Let(theta % (2 * PI), LAMBDA r0 :
  Let(IF r0 > PI THEN r0 - 2 * PI ELSE r0, LAMBDA r :
    IF r > HalfPI THEN SinPoly(PI - r)
    ELSE IF r < -HalfPI THEN SinPoly(-PI - r)
    ELSE SinPoly(r)))

\* Math.cos
Cos(theta) == Sin(theta + HalfPI)

(***************************************************************************)
(* class InvertedPendulum                                                  *)
(***************************************************************************)
gravity == 9810

friction == 100

maxCartPosition == 5000

maxCartVelocity == 10000

maxAngularVelocity == 20000

failureAngleThreshold == DivInt(PI * Scale, 3 * Scale)

maxForce == 50000

maxDt == 20

\* pendulum, controller: the two objects.  prev: both objects as they were
\* before the last call.  call: the last call (name, arguments, and for
\* calculate the error, time step and sums it computed).  steps: calls made
\* so far.  calls: calculate calls since the controller was constructed or
\* reset.  driver: the state and refs of the page component that owns the two
\* objects (src/pages/index.tsx), with the calls its last handler made.
VARIABLES pendulum, controller, prev, call, steps, calls, driver

vars == <<pendulum, controller, prev, call, steps, calls, driver>>

\* new InvertedPendulum(massCart, massPendulum, length, initialAngle)
NewPendulum(mc, mp, len, initialAngle) ==
  [ massCart |-> mc, massPendulum |-> mp, length |-> len,
    airResistance |-> 10,
    cartPosition |-> 0, cartVelocity |-> 0,
    pendulumAngle |-> initialAngle, pendulumAngularVelocity |-> 0,
    hasFailed |-> FALSE ]

\* the optional argument k of derivative, when absent
NoK == [ given |-> FALSE, dx |-> 0, dv |-> 0, dtheta |-> 0, domega |-> 0 ]

K(dx, dv, dtheta, domega) ==
  [ given |-> TRUE, dx |-> dx, dv |-> dv, dtheta |-> dtheta, domega |-> domega ]

\* Denominator with massCart in the place of totalMass
Denominator_CartOnly(s, cosTheta) ==
  s.massCart - MulFix(MulFix(s.massPendulum, cosTheta), cosTheta)

\* totalMass - massPendulum * cosTheta * cosTheta
Denominator(s, cosTheta) ==
  (s.massCart + s.massPendulum)
    - MulFix(MulFix(s.massPendulum, cosTheta), cosTheta)

derivative(s, force, dt, k) ==
  Let([ v |-> s.cartVelocity + (IF k.given THEN MulFix(k.dv, dt) ELSE 0),
        theta |->
          s.pendulumAngle + (IF k.given THEN MulFix(k.dtheta, dt) ELSE 0),
        omega |->
          s.pendulumAngularVelocity
            + (IF k.given THEN MulFix(k.domega, dt) ELSE 0) ], LAMBDA q :
  Let([ sinTheta |-> Sin(q.theta), cosTheta |-> Cos(q.theta),
        totalMass |-> s.massCart + s.massPendulum ], LAMBDA t :
  Let([ denominator |-> Denominator(s, t.cosTheta),
        frictionForce |->
          MulFix(friction, q.v) + MulFix(MulFix(10, q.v), Abs(q.v)),
        \* massPendulum * length * omega * omega * sinTheta
        centrifugal |->
          MulFix(MulFix(MulFix(MulFix(s.massPendulum, s.length), q.omega),
                        q.omega), t.sinTheta),
        angularDamping |->
          MulFix(s.airResistance, q.omega)
            + MulFix(MulFix(1, q.omega), Abs(q.omega)) ], LAMBDA e :
    IF Abs(e.denominator) < 1
      THEN K(q.v, 0, q.omega, 0)
      ELSE K(q.v,
             \* cartAccel
             DivFix(force - e.frictionForce + e.centrifugal
                      - MulFix(MulFix(MulFix(s.massPendulum, gravity),
                                      t.sinTheta), t.cosTheta),
                    e.denominator),
             q.omega,
             \* angularAccel
             DivFix(MulFix(force, t.cosTheta)
                      - MulFix(e.frictionForce, t.cosTheta)
                      + MulFix(MulFix(t.totalMass, gravity), t.sinTheta)
                      + MulFix(e.centrifugal, t.cosTheta)
                      - MulFix(e.angularDamping, s.length),
                    MulFix(s.length, e.denominator))))))

\* the number of times a loop "while (a > 0) a -= period" runs
Turns(a, period) == IF a > 0 THEN (a + period - 1) \div period ELSE 0

\* normalizeAngle with the second loop left out
normalizeAngle_DownOnly(angle) ==
  IF angle > PI THEN angle - 2 * PI * Turns(angle - PI, 2 * PI) ELSE angle

\* while (angle > PI) angle -= 2 PI; while (angle < -PI) angle += 2 PI
normalizeAngle(angle) ==
  IF angle > PI THEN angle - 2 * PI * Turns(angle - PI, 2 * PI)
  ELSE IF angle < -PI THEN angle + 2 * PI * Turns(-PI - angle, 2 * PI)
  ELSE angle

\* (dt / 6) * (a + 2 * b + 2 * c + d)
Weighted(dt, a, b, c, d) == DivInt(MulFix(dt, a + 2 * b + 2 * c + d), 6)

\* update, lines 60-70: the RK4 step
integrate(s, force, dt) ==
  Let(derivative(s, force, 0, NoK), LAMBDA k1 :
  Let(derivative(s, force, DivInt(dt, 2), k1), LAMBDA k2 :
  Let(derivative(s, force, DivInt(dt, 2), k2), LAMBDA k3 :
  Let(derivative(s, force, dt, k3), LAMBDA k4 :
    [ s EXCEPT
        !.cartPosition = @ + Weighted(dt, k1.dx, k2.dx, k3.dx, k4.dx),
        !.cartVelocity = @ + Weighted(dt, k1.dv, k2.dv, k3.dv, k4.dv),
        !.pendulumAngle =
           @ + Weighted(dt, k1.dtheta, k2.dtheta, k3.dtheta, k4.dtheta),
        !.pendulumAngularVelocity =
           @ + Weighted(dt, k1.domega, k2.domega, k3.domega, k4.domega) ]))))

\* limitVelocities that limits the cart velocity only
limitVelocities_CartOnly(s) ==
  [ s EXCEPT
      !.cartVelocity =
         IF Abs(@) > maxCartVelocity
           THEN MulFix(Sign(@) * maxCartVelocity, 950) ELSE @ ]

\* update, lines 72-79: soft velocity limits
limitVelocities(s) ==
  [ s EXCEPT
      !.cartVelocity =
         IF Abs(@) > maxCartVelocity
           THEN MulFix(Sign(@) * maxCartVelocity, 950) ELSE @,
      !.pendulumAngularVelocity =
         IF Abs(@) > maxAngularVelocity
           THEN MulFix(Sign(@) * maxAngularVelocity, 950) ELSE @ ]

\* limitPosition that bounces without moving the cart back to the boundary
limitPosition_NoClamp(s) ==
  IF Abs(s.cartPosition) > maxCartPosition
    THEN [ s EXCEPT !.cartVelocity = MulFix(@, -500) ]
    ELSE s

\* limitPosition that stops the cart at the boundary instead of bouncing
limitPosition_Stop(s) ==
  IF Abs(s.cartPosition) > maxCartPosition
    THEN [ s EXCEPT !.cartPosition = Sign(@) * maxCartPosition,
                    !.cartVelocity = 0 ]
    ELSE s

\* update, lines 81-85: position limit with bounce
limitPosition(s) ==
  IF Abs(s.cartPosition) > maxCartPosition
    THEN [ s EXCEPT !.cartPosition = Sign(@) * maxCartPosition,
                    !.cartVelocity = MulFix(@, -500) ]
    ELSE s

\* checkFailure that recomputes the flag from the angle on every call
checkFailure_NotSticky(s) ==
  [ s EXCEPT !.hasFailed = Abs(s.pendulumAngle) > failureAngleThreshold ]

\* checkFailure that looks at positive angles only
checkFailure_PositiveOnly(s) ==
  IF s.pendulumAngle > failureAngleThreshold
    THEN [ s EXCEPT !.hasFailed = TRUE ]
    ELSE s

\* checkFailure that also trips at exactly the threshold
checkFailure_Inclusive(s) ==
  IF Abs(s.pendulumAngle) >= failureAngleThreshold
    THEN [ s EXCEPT !.hasFailed = TRUE ]
    ELSE s

\* update, lines 55-58: sticky failure flag
checkFailure(s) ==
  IF Abs(s.pendulumAngle) > failureAngleThreshold
    THEN [ s EXCEPT !.hasFailed = TRUE ]
    ELSE s

\* clampForce without the lower limit
clampForce_UpperOnly(force) == Min(maxForce, force)

\* update, line 50
clampForce(force) == Max(-maxForce, Min(maxForce, force))

\* update, line 53
clampDt(dt) == Min(dt, maxDt)

\* update that leaves a failed pendulum where it is
update_FrozenWhenFailed(s, force, dt) ==
  Let(checkFailure(s), LAMBDA s0 :
    IF s0.hasFailed THEN s0
    ELSE
      Let(integrate(s0, clampForce(force), clampDt(dt)), LAMBDA s1 :
      Let(limitVelocities(s1), LAMBDA s2 :
      Let(limitPosition(s2), LAMBDA s3 :
        [ s3 EXCEPT !.pendulumAngle = normalizeAngle(@) ]))))

update(s, force, dt) ==
  Let(integrate(checkFailure(s), clampForce(force), clampDt(dt)), LAMBDA s1 :
  Let(limitVelocities(s1), LAMBDA s2 :
  Let(limitPosition(s2), LAMBDA s3 :
    [ s3 EXCEPT !.pendulumAngle = normalizeAngle(@) ])))

\* reset that also puts the default parameters back
reset_Defaults(s, initialAngle) ==
  [ s EXCEPT !.massCart = 1000, !.massPendulum = 100, !.airResistance = 10,
             !.cartPosition = 0, !.cartVelocity = 0,
             !.pendulumAngle = initialAngle,
             !.pendulumAngularVelocity = 0, !.hasFailed = FALSE ]

\* reset that leaves the failure flag alone
reset_KeepFlag(s, initialAngle) ==
  [ s EXCEPT !.cartPosition = 0, !.cartVelocity = 0,
             !.pendulumAngle = initialAngle,
             !.pendulumAngularVelocity = 0 ]

reset(s, initialAngle) ==
  [ s EXCEPT !.cartPosition = 0, !.cartVelocity = 0,
             !.pendulumAngle = initialAngle,
             !.pendulumAngularVelocity = 0, !.hasFailed = FALSE ]

getState(s) ==
  [ cartPosition |-> s.cartPosition, cartVelocity |-> s.cartVelocity,
    pendulumAngle |-> s.pendulumAngle,
    pendulumAngularVelocity |-> s.pendulumAngularVelocity,
    hasFailed |-> s.hasFailed ]

\* getParameters(), lines 202-212
getParameters(s) ==
  [ massCart |-> s.massCart, massPendulum |-> s.massPendulum,
    airResistance |-> s.airResistance ]

setMasses(s, cartMass, pendulumMass) ==
  [ s EXCEPT !.massCart = Max(100, cartMass),
             !.massPendulum = Max(10, pendulumMass) ]

setAirResistance(s, resistance) ==
  [ s EXCEPT !.airResistance = Max(0, resistance) ]

(***************************************************************************)
(* class PIDController                                                     *)
(***************************************************************************)
derivativeFilterAlpha == 100

integralMax == 100000

integralMin == -100000

outputMax == 50000

outputMin == -50000

\* the first-call default time step, 0.016 s
defaultDt == 16

\* new PIDController(kp, ki, kd, useAngleWrapping)
NewController(kp, ki, kd, useAngleWrapping) ==
  [ kp |-> kp, ki |-> ki, kd |-> kd,
    integral |-> 0, previousError |-> 0, previousTime |-> 0,
    filteredDerivative |-> 0, useAngleWrapping |-> useAngleWrapping ]

\* normalizeAngle of the controller with one shift in the place of each loop
PIDnormalizeAngle_Once(angle) ==
  IF angle > PI THEN angle - 2 * PI
  ELSE IF angle < -PI THEN angle + 2 * PI
  ELSE angle

\* while (angle > PI) angle -= 2 PI; while (angle < -PI) angle += 2 PI
PIDnormalizeAngle(angle) ==
  IF angle > PI THEN angle - 2 * PI * Turns(angle - PI, 2 * PI)
  ELSE IF angle < -PI THEN angle + 2 * PI * Turns(-PI - angle, 2 * PI)
  ELSE angle

\* calcError with the sign of the error reversed
calcError_Reversed(c, setpoint, processVariable) ==
  IF c.useAngleWrapping
    THEN PIDnormalizeAngle(processVariable - setpoint)
    ELSE processVariable - setpoint

\* calculate, lines 431-435
calcError(c, setpoint, processVariable) ==
  IF c.useAngleWrapping
    THEN PIDnormalizeAngle(setpoint - processVariable)
    ELSE setpoint - processVariable

\* calculate, line 438
rawDt(c, currentTime) ==
  IF c.previousTime = 0 THEN defaultDt ELSE currentTime - c.previousTime

\* calcDt without the lower limit
calcDt_NoFloor(c, currentTime) == Min(rawDt(c, currentTime), 100)

\* calculate, line 439
calcDt(c, currentTime) == Max(1, Min(rawDt(c, currentTime), 100))

\* calculate, lines 446-449
clampedIntegral(c, error, dt) ==
  Max(integralMin, Min(integralMax, c.integral + MulFix(error, dt)))

\* calculate, lines 453-463
calcDerivative(c, error, dt) ==
  IF dt > 0
    THEN MulFix(derivativeFilterAlpha, DivFix(error - c.previousError, dt))
           + MulFix(Scale - derivativeFilterAlpha, c.filteredDerivative)
    ELSE c.filteredDerivative

\* calculate, line 467: P + I + D
calcOutput(c, error, dt) ==
  MulFix(c.kp, error)
    + MulFix(c.ki, clampedIntegral(c, error, dt))
    + MulFix(c.kd, IF dt > 0 THEN calcDerivative(c, error, dt) ELSE 0)

\* saturate without the upper limit
saturate_LowerOnly(output) == Max(outputMin, output)

\* saturate without the lower limit
saturate_UpperOnly(output) == Min(outputMax, output)

\* calculate, line 470
saturate(output) == Max(outputMin, Min(outputMax, output))

\* backCalculate that reduces the integral whenever the output is saturated
backCalculate_IgnoreSign(error, dt, output, integral) ==
  IF output # saturate(output)
    THEN integral - MulFix(MulFix(error, dt), 500)
    ELSE integral

\* calculate, lines 472-476
backCalculate(error, dt, output, integral) ==
  IF output # saturate(output) /\ Sign(error) = Sign(integral)
    THEN integral - MulFix(MulFix(error, dt), 500)
    ELSE integral

\* calculate: the controller after the call and the value returned
calculate(c, setpoint, processVariable, currentTime) ==
  LET error == calcError(c, setpoint, processVariable)
      dt == calcDt(c, currentTime)
      output == calcOutput(c, error, dt)
  IN  [ controller |->
          [ c EXCEPT
              !.integral =
                 backCalculate(error, dt, output, clampedIntegral(c, error, dt)),
              !.filteredDerivative = calcDerivative(c, error, dt),
              !.previousError = error,
              !.previousTime = currentTime ],
        output |-> saturate(output) ]

\* PIDreset that leaves the filtered derivative
PIDreset_KeepDerivative(c) ==
  [ c EXCEPT !.integral = 0, !.previousError = 0, !.previousTime = 0 ]

\* PIDreset that leaves the timestamp of the last call
PIDreset_KeepTime(c) ==
  [ c EXCEPT !.integral = 0, !.previousError = 0, !.filteredDerivative = 0 ]

PIDreset(c) ==
  [ c EXCEPT !.integral = 0, !.previousError = 0, !.previousTime = 0,
             !.filteredDerivative = 0 ]

setGains(c, kp, ki, kd) == [ c EXCEPT !.kp = kp, !.ki = ki, !.kd = kd ]

setAngleWrapping(c, enabled) == [ c EXCEPT !.useAngleWrapping = enabled ]

(***************************************************************************)
(* Calls on the pendulum object.                                           *)
(***************************************************************************)
Perturbation == 300

Forces == { -80000, 0, 50000 }

Dts == { -50, 0, 33 }

\* 0.1 rad; one perturbation below -PI / 3; near PI; -PI
InitialAngles == { 100, -(failureAngleThreshold + Perturbation), 3000, -PI }

MassArgs == { <<50, 300>>, <<2000, 5>> }

ResistanceArgs == { -100, 500 }

Call(op, args) ==
  [ op |-> op, args |-> args, error |-> 0, dt |-> 0, output |-> 0,
    saturatedOutput |-> 0 ]

Objects ==
  [ pendulum |-> pendulum, controller |-> controller, driver |-> driver ]

\* the state and refs of the page component at its first render
\* (index.tsx lines 14-47); now is the clock of the browser
Home ==
  [ initialAngle |-> 100, isRunning |-> FALSE, controllerEnabled |-> TRUE,
    kp |-> 100000, ki |-> 1000, kd |-> 50000,
    cartMass |-> 1000, pendulumMass |-> 100, airResistance |-> 0,
    cartPosition |-> 0, pendulumAngle |-> 100, currentForce |-> 0,
    lastTime |-> 0, now |-> Scale, log |-> <<>> ]

InitPendulum ==
  /\ \E a \in InitialAngles : pendulum = NewPendulum(1000, 100, 1000, a)
  /\ controller = NewController(100000, 1000, 50000, FALSE)
  /\ driver = Home
  /\ prev = Objects
  /\ call = Call("new", <<>>)
  /\ steps = 0
  /\ calls = 0

\* pendulum.update(force, dt)
Update ==
  /\ steps < MaxSteps
  /\ \E force \in Forces, dt \in Dts :
       /\ pendulum' = update(pendulum, force, dt)
       /\ call' = Call("update", <<force, dt>>)
  /\ prev' = Objects
  /\ steps' = steps + 1
  /\ UNCHANGED <<controller, calls, driver>>

\* n consecutive calls update(force, dt)
RECURSIVE updateTimes(_, _, _, _)
updateTimes(s, force, dt, n) ==
  IF n = 0 THEN s
  ELSE Let(update(s, force, dt), LAMBDA t : updateTimes(t, force, dt, n - 1))

\* RunLength consecutive calls pendulum.update(force, dt) on the newly
\* constructed pendulum, one per tick of the simulation loop
UpdateRun ==
  /\ steps = 0
  /\ \E force \in { -80000, 50000 } :
       \E before \in { updateTimes(pendulum, force, maxDt, RunLength - 1) } :
         /\ pendulum' = update(before, force, maxDt)
         /\ prev' = [ Objects EXCEPT !.pendulum = before ]
         /\ call' = Call("update", <<force, maxDt>>)
  /\ steps' = steps + 1
  /\ UNCHANGED <<controller, calls, driver>>

\* pendulum.reset(initialAngle)
Reset ==
  /\ steps < MaxSteps
  /\ \E a \in InitialAngles :
       /\ pendulum' = reset(pendulum, a)
       /\ call' = Call("reset", <<a>>)
  /\ prev' = Objects
  /\ steps' = steps + 1
  /\ UNCHANGED <<controller, calls, driver>>

\* pendulumRef.current.pendulumAngle += 0.3
Perturb ==
  /\ steps < MaxSteps
  /\ pendulum' = [ pendulum EXCEPT !.pendulumAngle = @ + Perturbation ]
  /\ call' = Call("perturb", <<>>)
  /\ prev' = Objects
  /\ steps' = steps + 1
  /\ UNCHANGED <<controller, calls, driver>>

\* pendulum.setMasses(cartMass, pendulumMass)
SetMasses ==
  /\ steps < MaxSteps
  /\ \E m \in MassArgs :
       /\ pendulum' = setMasses(pendulum, m[1], m[2])
       /\ call' = Call("setMasses", m)
  /\ prev' = Objects
  /\ steps' = steps + 1
  /\ UNCHANGED <<controller, calls, driver>>

\* pendulum.setAirResistance(resistance)
SetAirResistance ==
  /\ steps < MaxSteps
  /\ \E r \in ResistanceArgs :
       /\ pendulum' = setAirResistance(pendulum, r)
       /\ call' = Call("setAirResistance", <<r>>)
  /\ prev' = Objects
  /\ steps' = steps + 1
  /\ UNCHANGED <<controller, calls, driver>>

Next ==
  \/ Update
  \/ UpdateRun
  \/ Reset
  \/ Perturb
  \/ SetMasses
  \/ SetAirResistance

Spec == InitPendulum /\ [][Next]_vars

(***************************************************************************)
(* Calls on the controller object.                                         *)
(***************************************************************************)
GainArgs == { <<1000, 0, 0>>, <<100000, 1000, 50000>> }

Setpoints == { 0, 4500000 }

ProcessValues == { 0, 3000, PI }

Times == { 0, 1000, 1050, 5000 }

\* the terms of calculate(setpoint, processVariable, currentTime) stay within
\* the numbers the model represents
Representable(c, setpoint, processVariable, currentTime) ==
  LET error == calcError(c, setpoint, processVariable)
      dt == calcDt(c, currentTime)
      units(a) == Abs(a) \div Scale + 1
  IN  /\ Abs(error - c.previousError) \div dt <= MaxMagnitude
      /\ units(c.kd) * units(calcDerivative(c, error, dt)) <= MaxMagnitude
      /\ units(c.kp) * units(error) <= MaxMagnitude

InitPID ==
  /\ pendulum = NewPendulum(1000, 100, 1000, 100)
  /\ \E g \in GainArgs, w \in BOOLEAN :
       controller = NewController(g[1], g[2], g[3], w)
  /\ driver = Home
  /\ prev = Objects
  /\ call = Call("new", <<>>)
  /\ steps = 0
  /\ calls = 0

\* controller.calculate(setpoint, processVariable, currentTime)
Calculate ==
  /\ steps < MaxCalls
  /\ \E sp \in Setpoints, pv \in ProcessValues, t \in Times :
       /\ Representable(controller, sp, pv, t)
       /\ controller' = calculate(controller, sp, pv, t).controller
       /\ call' =
            [ op |-> "calculate", args |-> <<sp, pv, t>>,
              error |-> calcError(controller, sp, pv),
              dt |-> calcDt(controller, t),
              output |->
                calcOutput(controller, calcError(controller, sp, pv),
                           calcDt(controller, t)),
              saturatedOutput |-> calculate(controller, sp, pv, t).output ]
  /\ prev' = Objects
  /\ steps' = steps + 1
  /\ calls' = calls + 1
  /\ UNCHANGED <<pendulum, driver>>

\* controller.reset()
ResetController ==
  /\ steps < MaxCalls
  /\ controller' = PIDreset(controller)
  /\ call' = Call("resetController", <<>>)
  /\ prev' = Objects
  /\ steps' = steps + 1
  /\ calls' = 0
  /\ UNCHANGED <<pendulum, driver>>

\* controller.setGains(kp, ki, kd)
SetGains ==
  /\ steps < MaxCalls
  /\ \E g \in GainArgs :
       /\ controller' = setGains(controller, g[1], g[2], g[3])
       /\ call' = Call("setGains", g)
  /\ prev' = Objects
  /\ steps' = steps + 1
  /\ UNCHANGED <<pendulum, calls, driver>>

\* controller.setAngleWrapping(enabled)
SetAngleWrapping ==
  /\ steps < MaxCalls
  /\ \E enabled \in BOOLEAN :
       /\ controller' = setAngleWrapping(controller, enabled)
       /\ call' = Call("setAngleWrapping", <<enabled>>)
  /\ prev' = Objects
  /\ steps' = steps + 1
  /\ UNCHANGED <<pendulum, calls, driver>>

NextPID ==
  \/ Calculate
  \/ ResetController
  \/ SetGains
  \/ SetAngleWrapping

SpecPID == InitPID /\ [][NextPID]_vars

(***************************************************************************)
(* Construction of the pendulum with any arguments, followed by calls of   *)
(* its setters and of reset.                                               *)
(***************************************************************************)
\* the arguments massCart, massPendulum of the constructor
ConstructorArgs == { <<1000, 100>>, <<50, 5>>, <<0, 0>>, <<-1000, 2000>> }

\* the argument length of the constructor
ConstructorLengths == { 1000, 500, 0 }

InitConfig ==
  /\ \E m \in ConstructorArgs, len \in ConstructorLengths :
       pendulum = NewPendulum(m[1], m[2], len, 100)
  /\ controller = NewController(100000, 1000, 50000, FALSE)
  /\ driver = Home
  /\ prev = Objects
  /\ call = Call("new", <<>>)
  /\ steps = 0
  /\ calls = 0

NextConfig ==
  \/ SetMasses
  \/ SetAirResistance
  \/ Reset

SpecConfig == InitConfig /\ [][NextConfig]_vars

(***************************************************************************)
(* The page component Home, src/pages/index.tsx: its effects, its          *)
(* animation-frame callback simulate and its event handlers.               *)
(***************************************************************************)
\* events handled by the page in one run of the model
MaxEvents == 5

\* milliseconds between two animation frames
FrameGaps == { 16, 50 }

\* (degrees) * Math.PI / 180, line 454
DegToRad(degrees) == DivInt(degrees * PI, 180)

\* positions of the initial-angle slider, in degrees
SliderAngles == { 172, -180 }

\* a slider of the PID gains or of the physical parameters, and a position
GainSliders == { <<"kp", 20000>>, <<"kd", 0>> }

ParameterSliders == { <<"cartMass", 2000>>, <<"airResistance", 500>> }

\* a call made on one of the two objects
LogEntry(method, args, result) ==
  [ method |-> method, args |-> args, result |-> result ]

\* "Initialize simulation" effect, lines 50-57
initialize(d) ==
  [ pendulum |-> NewPendulum(1000, 100, 1000, d.initialAngle),
    controller |-> NewController(d.kp, d.ki, d.kd, FALSE),
    driver |-> [ d EXCEPT !.pendulumAngle = d.initialAngle ] ]

\* "Update PID gains" effect, lines 60-64
updateGains(c, d) == setGains(c, d.kp, d.ki, d.kd)

\* "Update physical parameters" effect, lines 67-72
updateParameters(p, d) ==
  setAirResistance(setMasses(p, d.cartMass, d.pendulumMass), d.airResistance)

\* "Control simulation" effect, lines 124-140, run when isRunning or
\* simulate (isRunning, controllerEnabled) has changed
controlSimulation(d) ==
  IF d.isRunning THEN [ d EXCEPT !.lastTime = 0 ] ELSE d

\* simulate, lines 78-82
frameDt(d, currentTime) ==
  Min(IF d.lastTime = 0 THEN 16 ELSE currentTime - d.lastTime, 33)

\* control that reads the angle the page last displayed
control_DisplayedAngle(c, d, state, currentTime) ==
  IF d.controllerEnabled
    THEN Let(calculate(c, 0, d.pendulumAngle, currentTime), LAMBDA r :
           [ controller |-> r.controller, force |-> r.output,
             log |-> << LogEntry("calculate",
                                 <<0, d.pendulumAngle, currentTime>>,
                                 r.output) >> ])
    ELSE [ controller |-> c, force |-> 0, log |-> << >> ]

\* control that calls calculate whether or not the controller is enabled
control_Always(c, d, state, currentTime) ==
  Let(calculate(c, 0, state.pendulumAngle, currentTime), LAMBDA r :
    [ controller |-> r.controller,
      force |-> IF d.controllerEnabled THEN r.output ELSE 0,
      log |-> << LogEntry("calculate",
                          <<0, state.pendulumAngle, currentTime>>,
                          r.output) >> ])

\* simulate, lines 87-91: the force of this tick
control(c, d, state, currentTime) ==
  IF d.controllerEnabled
    THEN Let(calculate(c, 0, state.pendulumAngle, currentTime), LAMBDA r :
           [ controller |-> r.controller, force |-> r.output,
             log |-> << LogEntry("calculate",
                                 <<0, state.pendulumAngle, currentTime>>,
                                 r.output) >> ])
    ELSE [ controller |-> c, force |-> 0, log |-> << >> ]

\* simulate(currentTime), lines 75-121
simulate(p, c, d, currentTime) ==
  Let(getState(p), LAMBDA state :
  Let(control(c, d, state, currentTime), LAMBDA r :
  Let(update(p, r.force, frameDt(d, currentTime)), LAMBDA p2 :
  Let(getState(p2), LAMBDA newState :
    [ pendulum |-> p2,
      controller |-> r.controller,
      driver |->
        [ d EXCEPT
            !.lastTime = currentTime,
            !.now = currentTime,
            !.cartPosition = newState.cartPosition,
            !.pendulumAngle = newState.pendulumAngle,
            !.currentForce = r.force,
            !.log =
               << LogEntry("getState", << >>, state) >>
                 \o r.log
                 \o << LogEntry("update",
                                <<r.force, frameDt(d, currentTime)>>, 0),
                       LogEntry("getState", << >>, newState) >> ] ]))))

\* the page after mounting: the three effects have run in order
InitDriver ==
  /\ pendulum = updateParameters(initialize(Home).pendulum, Home)
  /\ controller = updateGains(initialize(Home).controller, Home)
  /\ driver = initialize(Home).driver
  /\ prev = Objects
  /\ call = Call("new", <<>>)
  /\ steps = 0
  /\ calls = 0

\* one animation frame: simulate(currentTime)
Simulate ==
  /\ steps < MaxEvents
  /\ driver.isRunning
  /\ \E gap \in FrameGaps :
       \E r \in { simulate(pendulum, controller, driver, driver.now + gap) } :
         /\ pendulum' = r.pendulum
         /\ controller' = r.controller
         /\ driver' = r.driver
         /\ call' = Call("simulate", <<driver.now + gap>>)
  /\ prev' = Objects
  /\ steps' = steps + 1
  /\ calls' = IF driver.controllerEnabled THEN calls + 1 ELSE calls

\* handleStart, lines 142-144 (the button is disabled while running)
HandleStart ==
  /\ steps < MaxEvents
  /\ ~driver.isRunning
  /\ driver' =
       controlSimulation([ driver EXCEPT !.isRunning = TRUE, !.log = << >> ])
  /\ call' = Call("handleStart", <<>>)
  /\ prev' = Objects
  /\ steps' = steps + 1
  /\ UNCHANGED <<pendulum, controller, calls>>

\* handleStop, lines 146-148 (the button is disabled while not running)
HandleStop ==
  /\ steps < MaxEvents
  /\ driver.isRunning
  /\ driver' = [ driver EXCEPT !.isRunning = FALSE, !.log = << >> ]
  /\ call' = Call("handleStop", <<>>)
  /\ prev' = Objects
  /\ steps' = steps + 1
  /\ UNCHANGED <<pendulum, controller, calls>>

\* handleReset, lines 150-172
HandleReset ==
  /\ steps < MaxEvents
  /\ \E p \in { reset(pendulum, driver.initialAngle) } :
       /\ pendulum' = p
       /\ driver' =
            [ driver EXCEPT
                !.isRunning = FALSE,
                !.cartPosition = getState(p).cartPosition,
                !.pendulumAngle = getState(p).pendulumAngle,
                !.currentForce = 0,
                !.lastTime = 0,
                !.log = << LogEntry("reset", <<driver.initialAngle>>, 0),
                           LogEntry("controller.reset", << >>, 0),
                           LogEntry("getState", << >>, getState(p)) >> ]
  /\ controller' = PIDreset(controller)
  /\ call' = Call("handleReset", <<>>)
  /\ prev' = Objects
  /\ steps' = steps + 1
  /\ calls' = 0

\* handlePerturbation, lines 174-178 (the button is disabled while not
\* running)
HandlePerturbation ==
  /\ steps < MaxEvents
  /\ driver.isRunning
  /\ pendulum' = [ pendulum EXCEPT !.pendulumAngle = @ + Perturbation ]
  /\ driver' = [ driver EXCEPT !.log = << >> ]
  /\ call' = Call("handlePerturbation", <<>>)
  /\ prev' = Objects
  /\ steps' = steps + 1
  /\ UNCHANGED <<controller, calls>>

\* toggleController, lines 180-188; simulate changes with controllerEnabled,
\* so the "Control simulation" effect runs again
ToggleController ==
  /\ steps < MaxEvents
  /\ driver' =
       controlSimulation(
         [ driver EXCEPT
             !.controllerEnabled = ~@,
             !.log = IF driver.controllerEnabled THEN << >>
                     ELSE << LogEntry("controller.reset", << >>, 0) >> ])
  /\ controller' =
       IF driver.controllerEnabled THEN controller ELSE PIDreset(controller)
  /\ calls' = IF driver.controllerEnabled THEN calls ELSE 0
  /\ call' = Call("toggleController", <<>>)
  /\ prev' = Objects
  /\ steps' = steps + 1
  /\ UNCHANGED pendulum

\* the initial-angle slider, line 454, and the effect that follows it
ChangeInitialAngle ==
  /\ steps < MaxEvents
  /\ \E degrees \in SliderAngles :
       /\ DegToRad(degrees) # driver.initialAngle
       /\ \E r \in { initialize([ driver EXCEPT
                                     !.initialAngle = DegToRad(degrees),
                                     !.log = << >> ]) } :
            /\ pendulum' = r.pendulum
            /\ controller' = r.controller
            /\ driver' = r.driver
       /\ call' = Call("setInitialAngle", <<DegToRad(degrees)>>)
  /\ prev' = Objects
  /\ steps' = steps + 1
  /\ calls' = 0

\* a slider of the PID gains, lines 354-386 (disabled while the controller
\* is disabled), and the effect that follows it
ChangeGains ==
  /\ steps < MaxEvents
  /\ driver.controllerEnabled
  /\ \E g \in GainSliders :
       /\ driver[g[1]] # g[2]
       /\ driver' = [ driver EXCEPT ![g[1]] = g[2], !.log = << >> ]
       /\ controller' = updateGains(controller, driver')
       /\ call' = Call("setGain", g)
  /\ prev' = Objects
  /\ steps' = steps + 1
  /\ UNCHANGED <<pendulum, calls>>

\* a slider of the physical parameters, lines 409-439, and the effect that
\* follows it
ChangeParameters ==
  /\ steps < MaxEvents
  /\ \E m \in ParameterSliders :
       /\ driver[m[1]] # m[2]
       /\ driver' = [ driver EXCEPT ![m[1]] = m[2], !.log = << >> ]
       /\ pendulum' = updateParameters(pendulum, driver')
       /\ call' = Call("setParameter", m)
  /\ prev' = Objects
  /\ steps' = steps + 1
  /\ UNCHANGED <<controller, calls>>

NextDriver ==
  \/ Simulate
  \/ HandleStart
  \/ HandleStop
  \/ HandleReset
  \/ HandlePerturbation
  \/ ToggleController
  \/ ChangeInitialAngle
  \/ ChangeGains
  \/ ChangeParameters

SpecDriver == InitDriver /\ [][NextDriver]_vars

(***************************************************************************)
(* The closed loop: PIDController(100, 1, 50) drives                       *)
(* InvertedPendulum(1.0, 0.1, 1.0, 0.1) for 5 s in steps of 0.01 s.        *)
(***************************************************************************)
\* 0.01 s
LoopDt == Scale \div 100

\* 5 s / 0.01 s
LoopTicks == (5 * Scale) \div LoopDt

\* the clock when the loop starts
StartTimes == { 0, 1000, 4990 }

InitLoop ==
  /\ pendulum = NewPendulum(1000, 100, 1000, 100)
  /\ controller = NewController(100000, 1000, 50000, FALSE)
  /\ \E t \in StartTimes : driver = [ Home EXCEPT !.now = t ]
  /\ prev = Objects
  /\ call = Call("new", <<>>)
  /\ steps = 0
  /\ calls = 0

\* one tick: read the state, compute the force, apply it for LoopDt
LoopStep ==
  /\ steps < LoopTicks
  /\ \E state \in { getState(pendulum) } :
       \E r \in { calculate(controller, 0, state.pendulumAngle,
                             driver.now + LoopDt) } :
         /\ controller' = r.controller
         /\ pendulum' = update(pendulum, r.output, LoopDt)
         /\ call' = Call("loop", <<r.output, LoopDt>>)
  /\ driver' = [ driver EXCEPT !.now = @ + LoopDt ]
  /\ prev' = Objects
  /\ steps' = steps + 1
  /\ calls' = calls + 1

NextLoop == LoopStep

SpecLoop == InitLoop /\ [][NextLoop]_vars

(***************************************************************************)
(* Properties of the pendulum object, checked under Spec.                  *)
(***************************************************************************)
\* the state the last update call had after its RK4 step and its velocity
\* limits, before its position limit
BeforePositionLimit ==
  limitVelocities(integrate(checkFailure(prev.pendulum),
                            Max(-maxForce, Min(maxForce, call.args[1])),
                            Min(call.args[2], maxDt)))

\* C2: after every update call the cart position is within
\* [-maxCartPosition, maxCartPosition].
C2_PositionClamped ==
  call.op = "update" => Abs(pendulum.cartPosition) <= maxCartPosition

\* an update call whose integrated position was beyond the boundary
C2_Witness ==
  /\ call.op = "update"
  /\ Abs(BeforePositionLimit.cartPosition) > maxCartPosition
  /\ Abs(pendulum.cartPosition) = maxCartPosition

\* C3 as stated: after every update call the angle is in the half-open
\* interval (-PI, PI].
C3_AngleHalfOpen ==
  call.op = "update" =>
    pendulum.pendulumAngle > -PI /\ pendulum.pendulumAngle <= PI

\* C3 amended: after every update call the angle is in the closed interval
\* [-PI, PI].
C3_AngleClosed ==
  call.op = "update" =>
    pendulum.pendulumAngle >= -PI /\ pendulum.pendulumAngle <= PI

\* an update call that started from an angle outside [-PI, PI] and one that
\* integrated to an angle outside it
C3_Witness ==
  /\ call.op = "update"
  /\ Abs(prev.pendulum.pendulumAngle) > PI
  /\ Abs(BeforePositionLimit.pendulumAngle) > PI
  /\ Abs(pendulum.pendulumAngle) < PI

\* C4: once hasFailed is true it stays true over every call other than
\* reset.
C4_FailureSticky ==
  [][pendulum.hasFailed /\ call'.op # "reset" => pendulum'.hasFailed]_vars

\* hasFailed was true before the last update call and is still true after
\* it, although the angle is back within the threshold
C4_Witness ==
  /\ call.op = "update"
  /\ prev.pendulum.hasFailed
  /\ pendulum.hasFailed
  /\ Abs(prev.pendulum.pendulumAngle) <= failureAngleThreshold
  /\ Abs(pendulum.pendulumAngle) <= failureAngleThreshold

\* C6: after reset(theta0), getState returns position 0, velocity 0, angle
\* theta0, angular velocity 0 and hasFailed false, and a second reset(theta0)
\* changes nothing.
C6_ResetState ==
  call.op = "reset" =>
    /\ getState(pendulum) =
         [ cartPosition |-> 0, cartVelocity |-> 0,
           pendulumAngle |-> call.args[1],
           pendulumAngularVelocity |-> 0, hasFailed |-> FALSE ]
    /\ reset(pendulum, call.args[1]) = pendulum

\* a reset of a pendulum that had failed and sat on the position boundary
C6_Witness ==
  /\ call.op = "reset"
  /\ prev.pendulum.hasFailed
  /\ Abs(prev.pendulum.cartPosition) = maxCartPosition
  /\ prev.pendulum.cartVelocity # 0

\* C9: update(f, dt) leaves the pendulum as update(min(50, max(-50, f)),
\* min(dt, 0.02)) leaves it; a negative dt is used as given.
C9_InputsSanitised ==
  call.op = "update" =>
    /\ pendulum = update(prev.pendulum,
                         Min(maxForce, Max(-maxForce, call.args[1])),
                         Min(call.args[2], maxDt))
    /\ pendulum = [ limitPosition(BeforePositionLimit)
                      EXCEPT !.pendulumAngle = normalizeAngle(@) ]

\* an update call with the force and the time step both out of range, which
\* moved the pendulum
C9_Witness ==
  /\ call.op = "update"
  /\ call.args[1] < -maxForce
  /\ call.args[2] > maxDt
  /\ pendulum.cartVelocity # prev.pendulum.cartVelocity

\* C10: when the integrated position is outside the track, update leaves the
\* cart on the boundary it crossed with the velocity reversed and halved;
\* otherwise the position rule changes neither position nor velocity.
C10_Bounce ==
  call.op = "update" =>
    \A s \in { BeforePositionLimit } :
      IF Abs(s.cartPosition) > maxCartPosition
        THEN /\ pendulum.cartPosition = Sign(s.cartPosition) * maxCartPosition
             /\ pendulum.cartVelocity * s.cartVelocity <= 0
             /\ Abs(pendulum.cartVelocity) = Abs(s.cartVelocity) \div 2
        ELSE /\ pendulum.cartPosition = s.cartPosition
             /\ pendulum.cartVelocity = s.cartVelocity

\* an update call that crossed the boundary with a non-zero velocity
C10_Witness ==
  /\ call.op = "update"
  /\ Abs(BeforePositionLimit.cartPosition) > maxCartPosition
  /\ pendulum.cartVelocity # 0

(***************************************************************************)
(* Properties of the controller object, checked under SpecPID.             *)
(***************************************************************************)
\* C1: the integral is within [integralMin, integralMax] after every
\* calculate call.
C1_IntegralBounded ==
  call.op = "calculate" =>
    controller.integral >= integralMin /\ controller.integral <= integralMax

\* C5: calculate returns P + I + D clamped to [outputMin, outputMax].
C5_OutputSaturated ==
  call.op = "calculate" =>
    /\ call.output =
         MulFix(prev.controller.kp, call.error)
           + MulFix(prev.controller.ki,
                    clampedIntegral(prev.controller, call.error, call.dt))
           + MulFix(prev.controller.kd, controller.filteredDerivative)
    /\ call.saturatedOutput >= outputMin
    /\ call.saturatedOutput <= outputMax
    /\ call.output >= outputMax => call.saturatedOutput = outputMax
    /\ call.output <= outputMin => call.saturatedOutput = outputMin
    /\ (call.output > outputMin /\ call.output < outputMax)
         => call.saturatedOutput = call.output

\* calculate calls whose unsaturated sum was beyond either limit
C5_Witness ==
  /\ call.op = "calculate"
  /\ call.output < outputMin
  /\ call.saturatedOutput = outputMin

\* C7: the controller is uninitialised after construction and reset, and
\* from the second calculate call on the time step is the elapsed time
\* currentTime - previousTime (clamped), never the first-call default.
C7_RunningUsesElapsed ==
  /\ calls = 0 => controller.previousTime = 0
  /\ (call.op = "calculate" /\ calls >= 2) =>
       call.dt = Max(1, Min(call.args[3] - prev.controller.previousTime, 100))

\* C8: the time step used by every calculate call is within [0.001, 0.1].
C8_DtClamped ==
  call.op = "calculate" => call.dt >= 1 /\ call.dt <= 100

\* a calculate call whose timestamp went backwards
C8_Witness ==
  /\ call.op = "calculate"
  /\ calls >= 2
  /\ prev.controller.previousTime # 0
  /\ call.args[3] < prev.controller.previousTime
  /\ call.dt = 1

(***************************************************************************)
(* Further properties of the pendulum object, checked under Spec.          *)
(***************************************************************************)
\* C19: after an update call hasFailed is true exactly when it was true
\* before the call or the angle at the start of the call was beyond PI / 3
\* (strictly: an angle of exactly PI / 3 does not trip it); construction and
\* reset leave it false and no other call changes it, so a pendulum whose
\* angle was never beyond PI / 3 at the start of an update has it false.
C19_FailureIff ==
  /\ call.op = "update" =>
       (pendulum.hasFailed <=>
          \/ prev.pendulum.hasFailed
          \/ prev.pendulum.pendulumAngle > failureAngleThreshold
          \/ prev.pendulum.pendulumAngle < -failureAngleThreshold)
  /\ call.op \in { "new", "reset" } => ~pendulum.hasFailed
  /\ call.op \in { "perturb", "setMasses", "setAirResistance" } =>
       pendulum.hasFailed = prev.pendulum.hasFailed

\* an update call that started at exactly the threshold and did not trip
C19_Witness ==
  /\ call.op = "update"
  /\ ~prev.pendulum.hasFailed
  /\ prev.pendulum.pendulumAngle = -failureAngleThreshold
  /\ pendulum.pendulumAngle # prev.pendulum.pendulumAngle
  /\ ~pendulum.hasFailed

\* position, velocity, angle and angular velocity
Dynamics(s) ==
  <<s.cartPosition, s.cartVelocity, s.pendulumAngle,
    s.pendulumAngularVelocity>>

\* C20: hasFailed does not influence the dynamics: the last update call
\* produces the same position, velocity, angle and angular velocity from a
\* pendulum that differs only in hasFailed, and the two pendulums again
\* differ in nothing but hasFailed after it, so that the same holds for the
\* calls that follow.
C20_FlagIgnored ==
  call.op = "update" =>
    \A other \in { update([ prev.pendulum EXCEPT !.hasFailed = ~@ ],
                           call.args[1], call.args[2]) } :
      /\ Dynamics(other) = Dynamics(pendulum)
      /\ [ other EXCEPT !.hasFailed = pendulum.hasFailed ] = pendulum

\* an update call that moved a pendulum that had failed
C20_Witness ==
  /\ call.op = "update"
  /\ prev.pendulum.hasFailed
  /\ pendulum.cartVelocity # prev.pendulum.cartVelocity
  /\ pendulum.pendulumAngle # prev.pendulum.pendulumAngle

\* the state the last update call had after its RK4 step, before its limits
AfterIntegration ==
  integrate(checkFailure(prev.pendulum),
            Max(-maxForce, Min(maxForce, call.args[1])),
            Min(call.args[2], maxDt))

\* C21: after every update call |cartVelocity| <= 10 and
\* |pendulumAngularVelocity| <= 20; an integrated cart velocity beyond 10 is
\* replaced by sign(v) * 9.5 and an integrated angular velocity beyond 20
\* by sign(w) * 19, before the position rule is applied.
C21_VelocityLimits ==
  call.op = "update" =>
    /\ Abs(pendulum.cartVelocity) <= maxCartVelocity
    /\ Abs(pendulum.pendulumAngularVelocity) <= maxAngularVelocity
    /\ \A s \in { AfterIntegration } :
         /\ pendulum.pendulumAngularVelocity =
              (IF Abs(s.pendulumAngularVelocity) > 20000
                 THEN Sign(s.pendulumAngularVelocity) * 19000
                 ELSE s.pendulumAngularVelocity)
         /\ \A v \in { IF Abs(s.cartVelocity) > 10000
                          THEN Sign(s.cartVelocity) * 9500
                          ELSE s.cartVelocity } :
              pendulum.cartVelocity =
                (IF Abs(s.cartPosition) > maxCartPosition
                   THEN -Sign(v) * (Abs(v) \div 2) ELSE v)

\* an update call that integrated to a cart velocity beyond 10 and an
\* angular velocity beyond 20
C21_Witness ==
  /\ call.op = "update"
  /\ Abs(AfterIntegration.cartVelocity) > maxCartVelocity
  /\ Abs(AfterIntegration.pendulumAngularVelocity) > maxAngularVelocity
  /\ Abs(pendulum.cartVelocity) < maxCartVelocity
  /\ Abs(pendulum.pendulumAngularVelocity) < maxAngularVelocity

\* C24 as stated: in the state getState returns after an update call an
\* angle beyond PI / 3 implies that hasFailed is true.
C24_FlagNotBehind ==
  call.op = "update" =>
    (Abs(getState(pendulum).pendulumAngle) > failureAngleThreshold
       => getState(pendulum).hasFailed)

\* C24 amended: hasFailed is at most one update call behind the angle: an
\* angle beyond PI / 3, whichever call left it, makes hasFailed true in the
\* state getState returns after the next update call.
C24_FlagOneCallBehind ==
  [][(call'.op = "update"
        /\ prev'.pendulum = pendulum
        /\ Abs(getState(pendulum).pendulumAngle) > failureAngleThreshold)
       => getState(pendulum').hasFailed]_vars

\* an update call that left an angle beyond PI / 3 with hasFailed false,
\* followed by an update call that set it
C24_Witness ==
  /\ call.op = "update"
  /\ prev.pendulum.pendulumAngularVelocity # 0
  /\ ~prev.pendulum.hasFailed
  /\ prev.pendulum.pendulumAngle < -failureAngleThreshold
  /\ pendulum.hasFailed

\* C25: after an update call whose position rule fired the cart velocity is
\* zero or points from the boundary the cart sits on into the track.
C25_VelocityInward ==
  (call.op = "update"
     /\ Abs(BeforePositionLimit.cartPosition) > maxCartPosition) =>
    /\ pendulum.cartPosition = maxCartPosition => pendulum.cartVelocity <= 0
    /\ pendulum.cartPosition = -maxCartPosition => pendulum.cartVelocity >= 0

\* values of cos(theta), from -1 to 1 in steps of 0.1
CosValues == { (c - 10) * (Scale \div 10) : c \in 0 .. 20 }

\* C29: when massCart >= 0.1 and massPendulum >= 0.01, the denominator of
\* derivative is at least massCart >= 0.1 for every angle, so the
\* near-singular guard |denominator| < 0.001 is not taken in an update call.
C29_GuardNotTaken ==
  (pendulum.massCart >= 100 /\ pendulum.massPendulum >= 10) =>
    /\ \A c \in CosValues : Denominator(pendulum, c) >= pendulum.massCart
    /\ call.op = "update" =>
         \A theta \in { prev.pendulum.pendulumAngle, pendulum.pendulumAngle } :
           /\ Denominator(pendulum, Cos(theta)) >= pendulum.massCart
           /\ ~(Abs(Denominator(pendulum, Cos(theta))) < 1)

\* an update call on a pendulum whose masses sit on their floors or close
\* to them, started where cos^2(theta) is 1 and the denominator smallest
C29_Witness ==
  /\ call.op = "update"
  /\ pendulum.massCart = 100
  /\ prev.pendulum.massCart = 100
  /\ Cos(prev.pendulum.pendulumAngle) = -Scale
  /\ Denominator(prev.pendulum, Cos(prev.pendulum.pendulumAngle)) = 100
  /\ pendulum.pendulumAngle # prev.pendulum.pendulumAngle

C11_FloorsHold ==
  /\ pendulum.massCart >= 100
  /\ pendulum.massPendulum >= 10
  /\ pendulum.airResistance >= 0
  /\ call.op = "setMasses" =>
       /\ pendulum.massCart = (IF call.args[1] > 100 THEN call.args[1] ELSE 100)
       /\ pendulum.massPendulum = (IF call.args[2] > 10 THEN call.args[2] ELSE 10)
  /\ call.op = "setAirResistance" =>
       pendulum.airResistance = (IF call.args[1] > 0 THEN call.args[1] ELSE 0)

(***************************************************************************)
(* Properties of the page component, checked under SpecDriver.             *)
(***************************************************************************)
\* the calls of a method in the log of the last handler
Count(method) ==
  Cardinality({ i \in DOMAIN driver.log : driver.log[i].method = method })

\* C12: reset changes no configuration: the pendulum's reset leaves
\* massCart, massPendulum, length and airResistance (friction is never
\* assigned), the controller's reset leaves kp, ki, kd and the angle-wrapping
\* mode, and zeroes integral, previousError, previousTime and
\* filteredDerivative.
C12_ResetFrame ==
  /\ Count("reset") > 0 =>
       /\ pendulum.massCart = prev.pendulum.massCart
       /\ pendulum.massPendulum = prev.pendulum.massPendulum
       /\ pendulum.length = prev.pendulum.length
       /\ pendulum.airResistance = prev.pendulum.airResistance
  /\ Count("controller.reset") > 0 =>
       /\ controller.kp = prev.controller.kp
       /\ controller.ki = prev.controller.ki
       /\ controller.kd = prev.controller.kd
       /\ controller.useAngleWrapping = prev.controller.useAngleWrapping
       /\ controller.integral = 0
       /\ controller.previousError = 0
       /\ controller.previousTime = 0
       /\ controller.filteredDerivative = 0

\* a Reset of a running simulation whose masses and gains had been changed
\* and whose controller had accumulated state
C12_Witness ==
  /\ call.op = "handleReset"
  /\ Count("reset") = 1
  /\ Count("controller.reset") = 1
  /\ prev.pendulum.massCart # 1000
  /\ prev.pendulum.cartVelocity # 0
  /\ prev.controller.kp # 100000
  /\ prev.controller.integral # 0
  /\ prev.controller.filteredDerivative # 0
  /\ prev.controller.previousTime # 0

\* C13 as stated: every tick makes exactly one calculate call and exactly
\* one update call, whether the controller is enabled or disabled.
C13_OneCalculateOneUpdate ==
  call.op = "simulate" => Count("calculate") = 1 /\ Count("update") = 1

\* C13 amended: every tick makes exactly one update call; it makes exactly
\* one calculate call when the controller is enabled and none when it is
\* disabled.
C13_OneUpdate ==
  call.op = "simulate" =>
    /\ Count("update") = 1
    /\ Count("calculate") = (IF prev.driver.controllerEnabled THEN 1 ELSE 0)
    /\ ~prev.driver.controllerEnabled => controller = prev.controller

\* a tick with the controller disabled that moved the pendulum
C13_Witness ==
  /\ call.op = "simulate"
  /\ ~prev.driver.controllerEnabled
  /\ Count("calculate") = 0
  /\ Count("update") = 1
  /\ pendulum.pendulumAngle # prev.pendulum.pendulumAngle

\* C14: a tick reads the state, then computes, then applies: calculate is
\* given the angle getState returned in this tick, update is given the
\* value calculate returned in this tick (0 when the controller is
\* disabled), and the state is read again only after update.
C14_ReadComputeApply ==
  call.op = "simulate" =>
    LET log == driver.log
        n == Len(log)
    IN  /\ n = (IF prev.driver.controllerEnabled THEN 4 ELSE 3)
        /\ log[1].method = "getState"
        /\ log[1].result = getState(prev.pendulum)
        /\ IF prev.driver.controllerEnabled
             THEN /\ log[2].method = "calculate"
                  /\ log[2].args[2] = log[1].result.pendulumAngle
                  /\ log[2].result =
                       calculate(prev.controller, log[2].args[1],
                                 log[2].args[2], log[2].args[3]).output
                  /\ log[3].args[1] = log[2].result
             ELSE log[2].args[1] = 0
        /\ log[n - 1].method = "update"
        /\ pendulum =
             update(prev.pendulum, log[n - 1].args[1], log[n - 1].args[2])
        /\ log[n].method = "getState"
        /\ log[n].result = getState(pendulum)

\* a tick after a perturbation, with the controller enabled and a force
\* that is not zero
C14_Witness ==
  /\ call.op = "simulate"
  /\ prev.driver.controllerEnabled
  /\ prev.driver.pendulumAngle # prev.pendulum.pendulumAngle
  /\ driver.currentForce # 0
  /\ driver.log[2].args[2] = prev.pendulum.pendulumAngle

\* C15: the process value given to calculate in a tick is within (-PI, PI],
\* also in the tick that follows a perturbation.
C15_ProcessValueWrapped ==
  call.op = "simulate" =>
    \A i \in DOMAIN driver.log :
      driver.log[i].method = "calculate" =>
        /\ driver.log[i].args[2] > -PI
        /\ driver.log[i].args[2] <= PI

C17_Stabilises ==
  /\ ~pendulum.hasFailed
  /\ Abs(pendulum.pendulumAngle) <= failureAngleThreshold
  /\ steps = LoopTicks => Abs(pendulum.pendulumAngle) <= 50

\* the end of a run in which the controller pushed the cart away from the
\* origin
C17_Witness ==
  /\ steps = LoopTicks
  /\ call.op = "loop"
  /\ Abs(pendulum.pendulumAngle) <= 50
  /\ pendulum.cartPosition # 0
  /\ controller.integral # 0

\* the divisors of derivative when it is evaluated at the angle theta:
\* denominator (line 123) and length * denominator (line 134)
Divisors(s, theta) ==
  { Denominator(s, Cos(theta)),
    MulFix(s.length, Denominator(s, Cos(theta))) }

\* derivative, evaluated at the angle theta, returns the degenerate
\* derivative or divides by non-zero divisors only
DividesSafely(s, theta) ==
  \/ Abs(Denominator(s, Cos(theta))) < 1
  \/ 0 \notin Divisors(s, theta)

\* the four evaluations of derivative in update(force, dt) divide safely;
\* each is looked at only when the ones before it do
UpdateDividesSafely(s, force, dt) ==
  /\ DividesSafely(s, s.pendulumAngle)
  /\ Let(derivative(s, force, 0, NoK), LAMBDA k1 :
       /\ DividesSafely(s, s.pendulumAngle
                              + MulFix(k1.dtheta, DivInt(dt, 2)))
       /\ Let(derivative(s, force, DivInt(dt, 2), k1), LAMBDA k2 :
            /\ DividesSafely(s, s.pendulumAngle
                                   + MulFix(k2.dtheta, DivInt(dt, 2)))
            /\ Let(derivative(s, force, DivInt(dt, 2), k2), LAMBDA k3 :
                 DividesSafely(s, s.pendulumAngle + MulFix(k3.dtheta, dt)))))

\* C22: for any parameters accepted by the constructor or the setters, each
\* of the four evaluations of derivative in an update call returns the
\* degenerate derivative or divides by non-zero divisors only.
C22_NoDivisionByZero ==
  \A force \in { 0, maxForce } : UpdateDividesSafely(pendulum, force, maxDt)

(***************************************************************************)
(* The error of calculate, checked under SpecPID.                          *)
(***************************************************************************)

\* C23 as stated: with angle wrapping enabled the error of every calculate
\* call lies in the half-open interval (-PI, PI].
C23_ErrorHalfOpen ==
  (call.op = "calculate" /\ prev.controller.useAngleWrapping) =>
    call.error > -PI /\ call.error <= PI

\* C23 amended: with angle wrapping enabled the error of every calculate call
\* lies in the closed interval [-PI, PI] and differs from setpoint -
\* processVariable by a whole number of turns; with angle wrapping disabled it
\* is setpoint - processVariable; the error is what calculate stores as
\* previousError; setAngleWrapping changes the mode and nothing else.
C23_ErrorWrapped ==
  /\ call.op = "calculate" =>
       /\ controller.previousError = call.error
       /\ controller.useAngleWrapping = prev.controller.useAngleWrapping
       /\ IF prev.controller.useAngleWrapping
            THEN /\ call.error >= -PI
                 /\ call.error <= PI
                 /\ (call.error - (call.args[1] - call.args[2])) % (2 * PI) = 0
            ELSE call.error = call.args[1] - call.args[2]
  /\ call.op = "setAngleWrapping" =>
       controller =
         [ prev.controller EXCEPT !.useAngleWrapping = call.args[1] ]

\* a second calculate call, with angle wrapping enabled, whose setpoint -
\* processVariable is several turns away from its error
C23_Witness ==
  /\ call.op = "calculate"
  /\ prev.controller.useAngleWrapping
  /\ calls = 2
  /\ steps = 3
  /\ Abs(call.args[1] - call.args[2]) > 3 * PI
  /\ call.args[2] # 0
  /\ Abs(controller.previousError) < PI
  /\ controller.previousError # prev.controller.previousError

\* C27: after reset the controller is the controller the constructor builds
\* from the same gains and wrapping mode, and the next calculate call returns
\* the same output and leaves the same state on both, whatever its arguments;
\* so every sequence of calculate calls gives the same outputs on both.
C27_ResetAsNew ==
  call.op = "resetController" =>
    \A fresh \in { NewController(prev.controller.kp, prev.controller.ki,
                                 prev.controller.kd,
                                 prev.controller.useAngleWrapping) } :
      /\ controller = fresh
      /\ \A sp \in Setpoints, pv \in ProcessValues, t \in Times :
           Representable(fresh, sp, pv, t) =>
             calculate(controller, sp, pv, t) = calculate(fresh, sp, pv, t)

\* a reset of a controller with angle wrapping whose calls left an integral,
\* an error, a filtered derivative and a timestamp
C27_Witness ==
  /\ call.op = "resetController"
  /\ prev.controller.useAngleWrapping
  /\ prev.controller.integral # 0
  /\ prev.controller.previousError # 0
  /\ prev.controller.filteredDerivative # 0
  /\ prev.controller.previousTime # 0
  /\ controller.integral = 0

(***************************************************************************)
(* The force of a tick, checked under SpecDriver.                          *)
(***************************************************************************)

\* the force simulate passed to update in this tick
AppliedForce == driver.log[Len(driver.log) - 1].args[1]

\* the output of this tick's calculate before its limits are applied
RawOutput ==
  calcOutput(prev.controller,
             calcError(prev.controller, 0, getState(prev.pendulum).pendulumAngle),
             calcDt(prev.controller, call.args[1]))

\* C28: the force simulate passes to update is within [-maxForce, maxForce]:
\* 0 when the controller is disabled, the saturated output of calculate
\* otherwise; the clamp of update leaves it as it is, and the force the page
\* displays is the force update integrates.
C28_ForceWithinLimits ==
  call.op = "simulate" =>
    /\ driver.log[Len(driver.log) - 1].method = "update"
    /\ AppliedForce >= -maxForce
    /\ AppliedForce <= maxForce
    /\ clampForce(AppliedForce) = AppliedForce
    /\ driver.currentForce = clampForce(AppliedForce)
    /\ IF prev.driver.controllerEnabled
         THEN AppliedForce = Max(outputMin, Min(outputMax, RawOutput))
         ELSE AppliedForce = 0

\* a tick whose calculate came out above the upper limit and was applied as
\* the limit
C28_Witness ==
  /\ call.op = "simulate"
  /\ prev.driver.controllerEnabled
  /\ RawOutput > outputMax
  /\ AppliedForce = maxForce
  /\ driver.currentForce = maxForce
  /\ pendulum.cartVelocity > prev.pendulum.cartVelocity

(***************************************************************************)
(* The parameters of the live pendulum, checked under SpecDriver.          *)
(***************************************************************************)

\* C26: once the effects of a slider change have run, getParameters() of
\* the live pendulum equals the cart mass, pendulum mass and air resistance
\* the page shows.
C26_ParametersInSync ==
  getParameters(pendulum) =
    [ massCart |-> driver.cartMass, massPendulum |-> driver.pendulumMass,
      airResistance |-> driver.airResistance ]

====
